---- MODULE Spec2Model ----
(***************************************************************************)
(* Model of the merchant scoring engine (src/utils/scoring.py) and of the  *)
(* tiered fee simulator (src/utils/simulation.py).                         *)
(*                                                                         *)
(* Number representation.  TLC has integers only, so every decimal         *)
(* quantity is an integer count of a fixed unit:                           *)
(*   - scores                : hundredths of a point (what .round(2)       *)
(*                             keeps), percentile ranks are exact          *)
(*                             fractions [n, d] until they are rounded;    *)
(*   - fee rates before      : FeeScale units per 1.0 (quarter-millionths,*)
(*     rounding                so that .round(6) has digits to remove);    *)
(*   - fee rates after       : millionths (what .round(6) keeps);          *)
(*     rounding                                                            *)
(*   - fee keys of the       : tenths of a percentage point (the fee       *)
(*     session state           sliders step by 0.1);                       *)
(*   - volume keys of the    : whole percentage points (the volume         *)
(*     session state           sliders step by 1.0);                       *)
(*   - trips after the lift  : hundredths of a trip;                       *)
(*   - revenue               : hundredths of a trip x basket x millionths. *)
(* Rounding is numpy's round-half-to-even on the exact value; the binary   *)
(* representation error of a float (about 1e-16) is below every unit used. *)
(***************************************************************************)
EXTENDS Integers, Sequences, FiniteSets, TLC

VARIABLES
    df,         \* the table handed to calculate_total_score (the loaded data)
    df_scored,  \* the page's scored table: calculate_total_score(df), or None
    ss,         \* st.session_state: a function from the keys present to values
    result,     \* the page's run_simulation outcome: status "none" (not run),
                \* "KeyError", or "ok" with sim, tier_fee and tier_vol
    trigger     \* what started the current script run: "load" (the page
                \* opened), "slider" (a value stored) or "reset" (the button)

vars == <<df, df_scored, ss, result, trigger>>

None == "None"

NoResult == [status |-> "none"]

\* ------------------------------------------------------------------------
\* Exact fractions and numpy rounding
\* ------------------------------------------------------------------------

Rat(n, d) == [n |-> n, d |-> d]

\* Nearest integer to n / d (d > 0), halves to the even neighbour (numpy.rint).
RoundHalfEven(n, d) ==
    LET q == n \div d
        r == n % d
    IN  IF 2 * r < d THEN q
        ELSE IF 2 * r > d THEN q + 1
        ELSE IF q % 2 = 0 THEN q ELSE q + 1

\* Series.round(2) of the fraction x: the result in hundredths.
Round2(x) == RoundHalfEven(x.n * 100, x.d)

\* A series (a pandas column) is a sequence; building it with \o makes TLC
\* compute every element once, like the vectorised pandas operation.
Series(f) == <<>> \o f

\* ------------------------------------------------------------------------
\* Percentile rank
\* ------------------------------------------------------------------------

\* Variant: kind="weak" (the inclusive convention, 100 * #(a <= score) / n).
percentileofscore_weak(arr, score) ==
    LET n     == Len(arr)
        right == Cardinality({j \in 1..n : arr[j] <= score})
    IN  Rat(right * 100, n)

\* scipy.stats.percentileofscore(arr, score, kind="rank"), a percentage:
\*   left = #(a < score), right = #(a <= score), plus1 = left < right,
\*   (left + right + plus1) * 50 / n
percentileofscore(arr, score) ==
    LET n     == Len(arr)
        left  == Cardinality({j \in 1..n : arr[j] < score})
        right == Cardinality({j \in 1..n : arr[j] <= score})
        plus1 == IF left < right THEN 1 ELSE 0
    IN  Rat((left + right + plus1) * 50, n)

\* _prank(series): percentileofscore(arr, v) / 100 for every element v.
_prank(series) ==
    Series([i \in 1..Len(series) |->
        LET p == percentileofscore(series, series[i])
        IN  Rat(p.n, p.d * 100)])

Column(t, c) == Series([i \in 1..Len(t) |-> t[i][c]])

Columns(t) == DOMAIN t[1]

\* ------------------------------------------------------------------------
\* Component scores (hundredths of a point)
\* ------------------------------------------------------------------------

\* (_prank(df['Annualized Trips']) * 35).round(2)
\* Variant: order volume weighted by the location count.
calculate_volume_score_by_size(t) ==
    LET p == _prank(Series([i \in 1..Len(t) |->
                 t[i].Annualized_Trips * t[i].Active_Locations]))
    IN  Series([i \in 1..Len(t) |-> Round2(Rat(p[i].n * 35, p[i].d))])

calculate_volume_score(t) ==
    LET p == _prank(Column(t, "Annualized_Trips"))
    IN  Series([i \in 1..Len(t) |-> Round2(Rat(p[i].n * 35, p[i].d))])

\* Variant: the wait-time score weighted with the volume allocation.
calculate_wait_time_score_35(t) ==
    LET p == _prank(Column(t, "Avg_Courier_Wait_Time"))
    IN  Series([i \in 1..Len(t) |-> Round2(Rat((p[i].d - p[i].n) * 35, p[i].d))])

\* ((1 - _prank(df['Avg. Courier Wait Time (min)'])) * 18).round(2)
calculate_wait_time_score(t) ==
    LET p == _prank(Column(t, "Avg_Courier_Wait_Time"))
    IN  Series([i \in 1..Len(t) |-> Round2(Rat((p[i].d - p[i].n) * 18, p[i].d))])

\* ((1 - _prank(df['Order Defect Rate'])) * 12).round(2)
calculate_defect_score(t) ==
    LET p == _prank(Column(t, "Order_Defect_Rate"))
    IN  Series([i \in 1..Len(t) |-> Round2(Rat((p[i].d - p[i].n) * 12, p[i].d))])

\* rev_per_order = basket * fee; (_prank(rev_per_order) * 35).round(2)
calculate_economics_score(t) ==
    LET rev_per_order ==
            Series([i \in 1..Len(t) |->
                        t[i].Avg_Basket_Size * t[i].Marketplace_Fee])
        p == _prank(rev_per_order)
    IN  Series([i \in 1..Len(t) |-> Round2(Rat(p[i].n * 35, p[i].d))])

\* Variant: the combined score rounded to one decimal.
calculate_ops_quality_score_round1(t) ==
    LET wait   == calculate_wait_time_score(t)
        defect == calculate_defect_score(t)
    IN  [total  |-> Series([i \in 1..Len(t) |->
                                10 * RoundHalfEven(wait[i] + defect[i], 10)]),
         wait   |-> wait,
         defect |-> defect]

\* (wait + defect).round(2), wait, defect
calculate_ops_quality_score(t) ==
    LET wait   == calculate_wait_time_score(t)
        defect == calculate_defect_score(t)
    IN  [total  |-> Series([i \in 1..Len(t) |->
                                Round2(Rat(wait[i] + defect[i], 100))]),
         wait   |-> wait,
         defect |-> defect]

\* ------------------------------------------------------------------------
\* Total score, rank and tier
\* ------------------------------------------------------------------------

\* Variant: rank(ascending=True, method='min').
RankAscMin(series) ==
    Series([i \in 1..Len(series) |->
        1 + Cardinality({j \in 1..Len(series) : series[j] < series[i]})])

\* Variant: dense ranking (method='dense'), no rank skipped after a tie.
RankDescDense(series) ==
    Series([i \in 1..Len(series) |->
        1 + Cardinality({series[j] : j \in {k \in 1..Len(series) :
                                              series[k] > series[i]}})])

\* Series.rank(ascending=False, method='min').astype(int)
RankDescMin(series) ==
    Series([i \in 1..Len(series) |->
        1 + Cardinality({j \in 1..Len(series) : series[j] > series[i]})])

\* Variant: the B branch missing.
_tier_noB(rank) ==
    IF rank <= 10 THEN "S"
    ELSE IF rank <= 50 THEN "A"
    ELSE "C"

_tier(rank) ==
    IF rank <= 10 THEN "S"
    ELSE IF rank <= 50 THEN "A"
    ELSE IF rank <= 150 THEN "B"
    ELSE "C"

ScoringInputs ==
    {"Annualized_Trips", "Avg_Courier_Wait_Time", "Order_Defect_Rate",
     "Avg_Basket_Size", "Marketplace_Fee"}

KeyError == "KeyError"

\* The fallback of calculate_total_score: df_scored = df.copy() with the
\* score, rank and tier columns assigned (existing columns of those names
\* are overwritten).
FromScratch(t) ==
    IF ~(ScoringInputs \subseteq Columns(t))
    THEN KeyError
    ELSE
      LET vol   == calculate_volume_score(t)
          ops   == calculate_ops_quality_score(t)
          econ  == calculate_economics_score(t)
          total == Series([i \in 1..Len(t) |->
                       Round2(Rat(vol[i] + ops.total[i] + econ[i], 100))])
          rank  == RankDescMin(total)
      IN  Series([i \in 1..Len(t) |->
              [Volume_Score      |-> vol[i],
               Wait_Time_Score   |-> ops.wait[i],
               Defect_Rate_Score |-> ops.defect[i],
               Ops_Quality_Score |-> ops.total[i],
               Economics_Score   |-> econ[i],
               Total_Score       |-> total[i],
               Rank              |-> rank[i],
               Tier              |-> _tier(rank[i])] @@ t[i]])

\* Variant: the pass-through test missing, every table scored from scratch.
calculate_total_score_recompute(t) == FromScratch(t)

calculate_total_score(t) ==
    IF {"Total_Score", "Tier"} \subseteq Columns(t)
    THEN t                                  \* pass-through: df.copy()
    ELSE FromScratch(t)

\* The place of every row in the order of nsmallest(n, 'Rank'): ascending
\* by Rank, rows of equal Rank in table order (keep='first').
SortPosition(t) ==
    Series([i \in 1..Len(t) |->
        Cardinality({j \in 1..Len(t) : t[j].Rank < t[i].Rank})
          + Cardinality({j \in 1..i : t[j].Rank = t[i].Rank})])

\* df_scored.nsmallest(n, 'Rank')
get_top_n_merchants(t, n) ==
    LET pos  == SortPosition(t)
        size == IF n < Len(t) THEN n ELSE Len(t)
    IN  Series([k \in 1..size |->
            t[CHOOSE i \in 1..Len(t) : pos[i] = k]])

\* ------------------------------------------------------------------------
\* Input tables of the scoring model (the input contract's columns only)
\* ------------------------------------------------------------------------

FeeScale == 4 * 1000000     \* fee units per 1.0 before rounding

MaxLen == 2                 \* rows of a table whose rows are all chosen freely

Metrics ==
    [Annualized_Trips      : {1, 2},
     Avg_Courier_Wait_Time : {1, 2},
     Order_Defect_Rate     : {1, 2},
     Avg_Basket_Size       : {1, 2},
     Marketplace_Fee       : {FeeScale \div 5}]

RawRow(id, m) ==
    [Brand_Name |-> id, Active_Locations |-> 1] @@ m

\* Tables of up to MaxLen rows, every row's metrics chosen freely.
FreeTables ==
    UNION { {[i \in 1..n |-> RawRow(i, ms[i])] : ms \in [1..n -> Metrics]}
            : n \in 1..MaxLen }

\* Large tables: one or two groups of accounts with identical metrics, the
\* group sizes chosen around the tier cut lines.
GroupSizes == {1, 9, 10, 49, 50, 149, 150}
SecondGroupSizes == {0, 1, 10, 150}

\* Four kinds of account; the first two have the same revenue per order
\* (2 x 0.10 = 1 x 0.20).
GroupMetrics ==
    {[Annualized_Trips |-> 2, Avg_Courier_Wait_Time |-> 1,
      Order_Defect_Rate |-> 1, Avg_Basket_Size |-> 2,
      Marketplace_Fee |-> FeeScale \div 10],
     [Annualized_Trips |-> 1, Avg_Courier_Wait_Time |-> 1,
      Order_Defect_Rate |-> 1, Avg_Basket_Size |-> 1,
      Marketplace_Fee |-> FeeScale \div 5],
     [Annualized_Trips |-> 1, Avg_Courier_Wait_Time |-> 2,
      Order_Defect_Rate |-> 1, Avg_Basket_Size |-> 2,
      Marketplace_Fee |-> FeeScale \div 5],
     [Annualized_Trips |-> 2, Avg_Courier_Wait_Time |-> 2,
      Order_Defect_Rate |-> 2, Avg_Basket_Size |-> 1,
      Marketplace_Fee |-> FeeScale \div 10]}

GroupedTables ==
    { Series([i \in 1..(k1 + k2) |-> RawRow(i, IF i <= k1 THEN m1 ELSE m2)])
        : <<k1, k2, m1, m2>> \in
            GroupSizes \X SecondGroupSizes \X GroupMetrics \X GroupMetrics }

\* Tables that break the input contract: a second row with a negative order
\* volume or a negative defect rate.
NegativeMetrics ==
    {[Annualized_Trips |-> -1, Avg_Courier_Wait_Time |-> 1,
      Order_Defect_Rate |-> 1, Avg_Basket_Size |-> 1,
      Marketplace_Fee |-> FeeScale \div 5],
     [Annualized_Trips |-> 1, Avg_Courier_Wait_Time |-> 1,
      Order_Defect_Rate |-> -1, Avg_Basket_Size |-> 1,
      Marketplace_Fee |-> FeeScale \div 5]}

NegativeTables ==
    { <<RawRow(1, m), RawRow(2, neg)>>
        : <<m, neg>> \in GroupMetrics \X NegativeMetrics }

RawTables == FreeTables \cup GroupedTables \cup NegativeTables

EmptySession == [k \in {} |-> 0]

\* ------------------------------------------------------------------------
\* Scoring on its own: any input table, scored once
\* ------------------------------------------------------------------------

InitScoring ==
    /\ df \in RawTables
    /\ df_scored = None
    /\ ss = EmptySession
    /\ result = NoResult
    /\ trigger = "load"

\* Variant: the score columns assigned on the argument itself (the
\* df.copy() of the fallback missing).
CalculateTotalScore_inplace ==
    /\ df_scored = None
    /\ df_scored' = calculate_total_score(df)
    /\ df' = IF df_scored' = KeyError THEN df ELSE df_scored'
    /\ UNCHANGED <<ss, result, trigger>>

\* df_scored = calculate_total_score(df)   (app.py:45, pages 1-3)
CalculateTotalScore ==
    /\ df_scored = None
    /\ df_scored' = calculate_total_score(df)
    /\ UNCHANGED <<df, ss, result, trigger>>

NextScoring == CalculateTotalScore

SpecScoring == InitScoring /\ [][NextScoring]_vars

Scored == df_scored # None /\ df_scored # KeyError

N == Len(df)

\* ------------------------------------------------------------------------
\* Claims about the scoring model (checked under SpecScoring)
\* ------------------------------------------------------------------------

\* The four series that are percentile-ranked.
RankedSeries(t) ==
    {Column(t, "Annualized_Trips"), Column(t, "Avg_Courier_Wait_Time"),
     Column(t, "Order_Defect_Rate"),
     Series([i \in 1..Len(t) |-> t[i].Avg_Basket_Size * t[i].Marketplace_Fee])}

CountLE(a, v) == Cardinality({j \in 1..Len(a) : a[j] <= v})
CountEQ(a, v) == Cardinality({j \in 1..Len(a) : a[j] = v})

RatEq(x, n, d) == x.n * d = n * x.d

HasTie(a) == \E i, j \in 1..Len(a) : i # j /\ a[i] = a[j]
AllEqual(a) == \A i \in 1..Len(a) : a[i] = a[1]

\* C1 as stated: _prank of every element v of every column is
\* |{x : x <= v}| / N, ties included.
C1_Inclusive ==
    Scored =>
        \A a \in RankedSeries(df) :
            LET p == _prank(a) IN
            \A i \in 1..N : RatEq(p[i], CountLE(a, a[i]), N)

\* C1 amended: _prank of an element v that occurs k times is
\* (2 * |{x : x <= v}| - (k - 1)) / (2 * N), the mean rank of the tie group
\* over N; it is the inclusive |{x : x <= v}| / N exactly when v is untied.
C1_MeanRank ==
    Scored =>
        \A a \in RankedSeries(df) :
            LET p == _prank(a) IN
            \A i \in 1..N :
                /\ RatEq(p[i], 2 * CountLE(a, a[i]) - (CountEQ(a, a[i]) - 1),
                         2 * N)
                /\ RatEq(p[i], CountLE(a, a[i]), N) <=> CountEQ(a, a[i]) = 1

C1_Witness ==
    /\ Scored
    /\ \E a \in RankedSeries(df) : HasTie(a) /\ ~AllEqual(a)

\* C2 as stated: a column whose values are all identical gets 1.0 for every
\* element.
C2_AllEqualOne ==
    Scored =>
        \A a \in RankedSeries(df) :
            AllEqual(a) =>
                LET p == _prank(a) IN \A i \in 1..N : RatEq(p[i], 1, 1)

\* C2 amended: a column whose N values are all identical gets (N + 1) / (2 * N)
\* for every element, which is 1.0 only for N = 1.
C2_AllEqualMean ==
    Scored =>
        \A a \in RankedSeries(df) :
            AllEqual(a) =>
                LET p == _prank(a) IN
                \A i \in 1..N :
                    /\ RatEq(p[i], N + 1, 2 * N)
                    /\ RatEq(p[i], 1, 1) <=> N = 1

C2_Witness ==
    /\ Scored
    /\ N >= 2
    /\ \E a \in RankedSeries(df) : AllEqual(a)

TierCount(t, tier) == Cardinality({i \in 1..Len(t) : t[i].Tier = tier})

Min(a, b) == IF a < b THEN a ELSE b

\* C3: the number of accounts in tier S is exactly min(10, N), also when
\* several accounts have equal Total_Score.
C3_TenInS ==
    Scored => TierCount(df_scored, "S") = Min(10, N)

\* C4: the tier is decided by the rank alone against the fixed cut lines
\* 10 / 50 / 150, for any N, and the four tier counts sum to N.
C4_TierByRank ==
    Scored =>
        /\ \A i \in 1..N :
             LET r == df_scored[i] IN
             /\ r.Tier \in {"S", "A", "B", "C"}
             /\ r.Tier = "S" <=> r.Rank \in 1..10
             /\ r.Tier = "A" <=> r.Rank \in 11..50
             /\ r.Tier = "B" <=> r.Rank \in 51..150
             /\ r.Tier = "C" <=> r.Rank >= 151
        /\ TierCount(df_scored, "S") + TierCount(df_scored, "A")
             + TierCount(df_scored, "B") + TierCount(df_scored, "C") = N

C4_Witness ==
    /\ Scored
    /\ N > 200
    /\ \E i, j \in 1..N :
         /\ df_scored[i].Rank = 150 /\ df_scored[i].Tier = "B"
         /\ df_scored[j].Rank = 1

\* C5: a greater Total_Score has a smaller Rank; an equal (rounded)
\* Total_Score has the same Rank and the same Tier.
C5_RankFollowsScore ==
    Scored =>
        \A a, b \in 1..N :
            /\ df_scored[a].Total_Score > df_scored[b].Total_Score
                 => df_scored[a].Rank < df_scored[b].Rank
            /\ df_scored[a].Total_Score = df_scored[b].Total_Score
                 => /\ df_scored[a].Rank = df_scored[b].Rank
                    /\ df_scored[a].Tier = df_scored[b].Tier

C5_Witness ==
    /\ Scored
    /\ \E a, b, c \in 1..N :
         /\ a # b
         /\ df_scored[a].Total_Score = df_scored[b].Total_Score
         /\ df_scored[a].Total_Score > df_scored[c].Total_Score

\* C6: the four stored sub-scores add up to Total_Score (no hundredth is
\* lost by rounding Ops_Quality_Score and then the total).
C6_SubScoresSum ==
    Scored =>
        \A i \in 1..N :
            LET r == df_scored[i] IN
            r.Volume_Score + r.Wait_Time_Score + r.Defect_Rate_Score
                + r.Economics_Score = r.Total_Score

C6_Witness ==
    /\ Scored
    /\ \E i \in 1..N :
         /\ df_scored[i].Wait_Time_Score % 10 # 0
         /\ df_scored[i].Defect_Rate_Score % 10 # 0
         /\ df_scored[i].Ops_Quality_Score % 10 # 0

\* C7: every sub-score lies within its allocation (35, 18, 12, 35 points,
\* 100 in all) and Total_Score lies in [0, 100].
C7_ScoreRanges ==
    Scored =>
        \A i \in 1..N :
            LET r == df_scored[i] IN
            /\ r.Volume_Score \in 0..3500
            /\ r.Wait_Time_Score \in 0..1800
            /\ r.Defect_Rate_Score \in 0..1200
            /\ r.Economics_Score \in 0..3500
            /\ r.Total_Score \in 0..10000
            /\ 3500 + 1800 + 1200 + 3500 = 10000

C7_Witness ==
    /\ Scored
    /\ \E i \in 1..N : df_scored[i].Volume_Score = 3500
    /\ \E i \in 1..N : df_scored[i].Wait_Time_Score > 1700

\* ------------------------------------------------------------------------
\* Session state and the fee simulator (src/utils/simulation.py)
\* ------------------------------------------------------------------------

FEE_FLOOR == 100000         \* 0.10 in millionths
FEE_CAP   == 300000         \* 0.30 in millionths

FeeKeys == {"s_fee_change", "a_fee_change", "b_fee_change", "c_fee_change"}
VolKeys == {"s_volume", "a_volume", "b_volume", "c_volume"}
Keys    == FeeKeys \cup VolKeys

\* Fee keys in tenths of a percentage point, volume keys in whole points.
SS_DEFAULTS ==
    [s_fee_change |-> -20, a_fee_change |-> -5,
     b_fee_change |->  20, c_fee_change |-> 30,
     s_volume     |->  20, a_volume     |-> 10,
     b_volume     |->  -5, c_volume     |-> -15]

\* Variant: the stored value ignored.
Get_default_only(state, k) == SS_DEFAULTS[k]

\* ss.get(k, SS_DEFAULTS[k])
Get(state, k) == IF k \in DOMAIN state THEN state[k] ELSE SS_DEFAULTS[k]

\* Variant: every key assigned its default, present or not.
init_session_state_overwrite(state) == SS_DEFAULTS

\* init_session_state(): every absent key gets its default.
init_session_state(state) ==
    [k \in Keys |-> IF k \in DOMAIN state THEN state[k] ELSE SS_DEFAULTS[k]]

\* Variant: true only while no key is stored.
is_at_defaults_absent(state) ==
    \A k \in Keys : k \notin DOMAIN state

\* is_at_defaults()
is_at_defaults(state) ==
    \A k \in Keys : Get(state, k) = SS_DEFAULTS[k]

\* A fee key / 100: tenths of a point -> fee units (0.1 pp / 100 = 1/1000).
FeeDelta(v) == v * (FeeScale \div 1000)

\* A volume key / 100: whole points -> the fraction v / 100.
VolDelta(v) == Rat(v, 100)

\* Series.round(6) of a fee in fee units: the result in millionths.
Round6(x) == RoundHalfEven(x, FeeScale \div 1000000)

\* raw_new_fee = (Marketplace Fee + tier_fee[Tier]).round(6)
raw_new_fee(fee, delta) == Round6(fee + delta)

\* Variant: the lower bound missing.
clip_upper(raw) == IF raw > FEE_CAP THEN FEE_CAP ELSE raw

\* raw_new_fee.clip(lower=FEE_FLOOR, upper=FEE_CAP)
clip(raw) ==
    IF raw < FEE_FLOOR THEN FEE_FLOOR
    ELSE IF raw > FEE_CAP THEN FEE_CAP
    ELSE raw

\* Variant: a fee landing on the cap is flagged too.
Fee_Capped_ge(raw) == raw >= FEE_CAP

Fee_Capped(raw)  == raw > FEE_CAP
Fee_Floored(raw) == raw < FEE_FLOOR

\* Variant: the "1 +" missing.
New_Trips_lift_only(trips, vol) == trips * vol.n

\* Annualized Trips * (1 + tier_vol[Tier]), in hundredths of a trip
\* (vol is a fraction of denominator 100)
New_Trips(trips, vol) == trips * (vol.d + vol.n)

\* Variant: the baseline recomputed from the row's three inputs.
Curr_Rev_product(sel) ==
    sel.Annualized_Trips * sel.Avg_Basket_Size * sel.Marketplace_Fee
        * (100 \div (FeeScale \div 1000000))

\* sim['Curr Rev'] = sim['Estimated_Annual_Revenue']
Curr_Rev(sel) == sel.Estimated_Annual_Revenue

\* Variant: the basket size missing from the product.
New_Rev_no_basket(trips, basket, fee) == trips * fee

\* sim['New Rev'] = sim['New Trips'] * sim['Avg. Basket Size'] * sim['New Fee']
New_Rev(trips, basket, fee) == trips * basket * fee

\* Variant: a zero adjustment shown as an increase.
Fee_Dir_no_dash(x) == IF x >= 0 THEN "up" ELSE "down"

\* sim['Fee Dir']: the arrow for the sign of the intended adjustment
Fee_Dir(x) == IF x > 0 THEN "up" ELSE IF x < 0 THEN "down" ELSE "dash"

\* Variant: a column selected under the name it had before the loader's
\* rename.
SimColumns_csv_name ==
    {"Brand_Name", "Segment", "Tier", "Rank",
     "Annualized_Trips", "Avg_Basket_Size", "Marketplace_Fee",
     "Active_Locations", "Current_Rev",
     "Target_Fee_Default", "New_Trips_Default",
     "New_Revenue_Default", "Revenue_Delta_Default"}

SimColumns ==
    {"Brand_Name", "Segment", "Tier", "Rank",
     "Annualized_Trips", "Avg_Basket_Size", "Marketplace_Fee",
     "Active_Locations", "Estimated_Annual_Revenue",
     "Target_Fee_Default", "New_Trips_Default",
     "New_Revenue_Default", "Revenue_Delta_Default"}

run_simulation(t, state) ==
    LET fee_s == FeeDelta(Get(state, "s_fee_change"))
        fee_a == FeeDelta(Get(state, "a_fee_change"))
        fee_b == FeeDelta(Get(state, "b_fee_change"))
        fee_c == FeeDelta(Get(state, "c_fee_change"))
        vol_s == VolDelta(Get(state, "s_volume"))
        vol_a == VolDelta(Get(state, "a_volume"))
        vol_b == VolDelta(Get(state, "b_volume"))
        vol_c == VolDelta(Get(state, "c_volume"))
        tier_fee == [S |-> fee_s, A |-> fee_a, B |-> fee_b, C |-> fee_c]
        tier_vol == [S |-> vol_s, A |-> vol_a, B |-> vol_b, C |-> vol_c]
        SimRow(r) ==
            LET sel      == [c \in SimColumns |-> r[c]]
                curr     == Curr_Rev(sel)
                raw      == raw_new_fee(sel.Marketplace_Fee, tier_fee[sel.Tier])
                new_fee  == clip(raw)
                trips    == New_Trips(sel.Annualized_Trips, tier_vol[sel.Tier])
                new_rev  == New_Rev(trips, sel.Avg_Basket_Size, new_fee)
            IN  [Curr_Rev      |-> curr,
                 Fee_Chg_pp    |-> tier_fee[sel.Tier] \div (FeeScale \div 1000),
                 Vol_Lift_pct  |-> (tier_vol[sel.Tier].n * 100)
                                     \div tier_vol[sel.Tier].d,
                 Fee_Dir       |-> Fee_Dir(tier_fee[sel.Tier]),
                 New_Fee       |-> new_fee,
                 Fee_Capped    |-> Fee_Capped(raw),
                 Fee_Floored   |-> Fee_Floored(raw),
                 New_Trips     |-> trips,
                 New_Rev       |-> new_rev,
                 Rev_Delta     |-> new_rev - curr,
                 \* Rev Delta / Curr Rev * 100, kept as the fraction
                 \* Rev Delta / Curr Rev (the percentage is 100 times it)
                 Rev_Delta_pct |-> Rat(new_rev - curr, curr)] @@ sel
    IN  IF ~(SimColumns \subseteq Columns(t))
        THEN [status |-> KeyError]
        ELSE [status   |-> "ok",
              sim      |-> Series([i \in 1..Len(t) |-> SimRow(t[i])]),
              tier_fee |-> tier_fee,
              tier_vol |-> tier_vol]

\* ------------------------------------------------------------------------
\* Loaded tables (the output of load_restaurant_data: scores, rank, tier and
\* revenue columns pre-calculated in the CSV)
\* ------------------------------------------------------------------------

\* m millionths in fee units
Fee(m) == m * (FeeScale \div 1000000)

\* 0.05, 0.10, 0.11, 0.12, 0.27, 0.28, 0.29, and two rates that are not a
\* whole number of millionths: 0.30000025 and 0.30000075
FeeSeq ==
    <<Fee(50000), Fee(100000), Fee(110000), Fee(120000), Fee(270000),
      Fee(280000), Fee(290000), Fee(300000) + 1, Fee(300000) + 3>>

TierSeq == <<"S", "A", "B", "C">>

TierRank == [S |-> 1, A |-> 11, B |-> 51, C |-> 151]

\* Annualized Trips x Avg. Basket Size x Marketplace Fee in revenue units
\* (hundredths of a trip x basket x millionths): 100 / 4 per fee unit.
BaselineRevenue(trips, basket, fee) ==
    trips * basket * fee * (100 \div (FeeScale \div 1000000))

LoadedRow(i, tier, fee, trips, basket, off) ==
    [Brand_Name               |-> i,
     Segment                  |-> "SMB",
     Active_Locations         |-> 1,
     Annualized_Trips         |-> trips,
     Avg_Courier_Wait_Time    |-> 1,
     Order_Defect_Rate        |-> 1,
     Avg_Basket_Size          |-> basket,
     Marketplace_Fee          |-> fee,
     Volume_Score             |-> 0,
     Wait_Time_Score          |-> 0,
     Defect_Rate_Score        |-> 0,
     Ops_Quality_Score        |-> 0,
     Economics_Score          |-> 0,
     Total_Score              |-> 0,
     Rank                     |-> TierRank[tier],
     Tier                     |-> tier,
     Estimated_Annual_Revenue |-> BaselineRevenue(trips, basket, fee) + off,
     Target_Fee_Default       |-> 0,
     New_Trips_Default        |-> 0,
     New_Revenue_Default      |-> 0,
     Revenue_Delta_Default    |-> 0]

\* One table per choice of trips, basket size and revenue offset (the CSV's
\* 'Current Rev' need not be the exact product); its rows pair every tier
\* with every fee rate.
LoadedTables ==
    { Series([i \in 1..(Len(TierSeq) * Len(FeeSeq)) |->
                LoadedRow(i,
                          TierSeq[((i - 1) \div Len(FeeSeq)) + 1],
                          FeeSeq[((i - 1) % Len(FeeSeq)) + 1],
                          trips, basket, off)])
        : <<trips, basket, off>> \in {1, 2} \X {1, 2} \X {0, 1000} }

\* A loaded table with accounts in tiers S and C only.
PartialTables ==
    { Series([i \in 1..(2 * Len(FeeSeq)) |->
                LoadedRow(i,
                          IF i <= Len(FeeSeq) THEN "S" ELSE "C",
                          FeeSeq[((i - 1) % Len(FeeSeq)) + 1],
                          2, 1, 0)]) }

\* Two tables without pre-calculated columns, scored from scratch.
UnscoredTables ==
    { <<RawRow(1, m)>> :
        m \in {g \in GroupMetrics : g.Avg_Courier_Wait_Time = 1} }

\* Values stored under a key, away from its default: 0 for every key, +1.0 pp
\* for the C-tier fee, and -150 (a volume delta of -1.5) for the C-tier
\* volume, which no slider offers but any caller of run_simulation can put
\* in st.session_state.  (A key holding its default value comes from
\* init_session_state.)
ParamValues(k) ==
    {0} \cup (IF k = "c_fee_change" THEN {10} ELSE {})
        \cup (IF k = "c_volume" THEN {-150} ELSE {})

\* ------------------------------------------------------------------------
\* The application: session state, sliders, page runs
\* ------------------------------------------------------------------------

Init ==
    /\ df \in LoadedTables \cup PartialTables \cup UnscoredTables
    /\ df_scored = None
    /\ ss = EmptySession
    /\ result = NoResult
    /\ trigger = "load"

InitSessionState ==
    /\ ss' = init_session_state(ss)
    /\ UNCHANGED <<df, df_scored, result, trigger>>

\* A value is stored under a key (a slider moved, or st.session_state[k] = v)
\* and the page reruns from the top.
SetParam(k, v) ==
    /\ ss' = (k :> v) @@ ss
    /\ df_scored' = None
    /\ result' = NoResult
    /\ trigger' = "slider"
    /\ UNCHANGED df

\* Variant: only the fee keys popped.
ResetToDefaults_fees_only ==
    /\ ss' = [k \in DOMAIN ss \ FeeKeys |-> ss[k]]
    /\ df_scored' = None
    /\ result' = NoResult
    /\ trigger' = "reset"
    /\ UNCHANGED df

\* 'Reset to Defaults': every key popped, st.rerun().
ResetToDefaults ==
    /\ ss' = [k \in DOMAIN ss \ Keys |-> ss[k]]
    /\ df_scored' = None
    /\ result' = NoResult
    /\ trigger' = "reset"
    /\ UNCHANGED df

\* Variant: the proposed fee written into the input table's fee column (the
\* .copy() of the column selection missing).
RunSimulation_writeback ==
    /\ Scored
    /\ result.status = "none"
    /\ result' = run_simulation(df_scored, ss)
    /\ df' = IF result'.status = "ok"
             THEN Series([i \in 1..Len(df) |->
                     [df[i] EXCEPT !.Marketplace_Fee =
                         result'.sim[i].New_Fee * (FeeScale \div 1000000)]])
             ELSE df
    /\ UNCHANGED <<df_scored, ss, trigger>>

\* Variant: the session state initialised by the run.
RunSimulation_init ==
    /\ Scored
    /\ result.status = "none"
    /\ result' = run_simulation(df_scored, ss)
    /\ ss' = init_session_state(ss)
    /\ UNCHANGED <<df, df_scored, trigger>>

\* sim, tier_fee, tier_vol = run_simulation(df)
RunSimulation ==
    /\ Scored
    /\ result.status = "none"
    /\ result' = run_simulation(df_scored, ss)
    /\ UNCHANGED <<df, df_scored, ss, trigger>>

Next ==
    \/ InitSessionState
    \/ \E k \in Keys : \E v \in ParamValues(k) : SetParam(k, v)
    \/ ResetToDefaults
    \/ CalculateTotalScore
    \/ RunSimulation

Spec == Init /\ [][Next]_vars

Simulated == result.status = "ok"

\* ------------------------------------------------------------------------
\* Claims about the fee simulator (checked under Spec)
\* ------------------------------------------------------------------------

FeeKey == [S |-> "s_fee_change", A |-> "a_fee_change",
           B |-> "b_fee_change", C |-> "c_fee_change"]

\* The unclamped fee of a result row under the current parameters, rounded
\* to 6 decimals (millionths).
RawFee(r) == Round6(r.Marketplace_Fee + FeeDelta(Get(ss, FeeKey[r.Tier])))

SimRows == 1..Len(result.sim)

\* C8: Fee Capped iff the rounded unclamped fee is strictly above 0.30, Fee
\* Floored iff strictly below 0.10, never both; 0.29 + 0.01 and 0.27 + 0.03
\* (exactly 0.30) are not flagged, 0.28 + 0.03 is capped with New Fee 0.30.
C8_StrictFlags ==
    Simulated =>
        \A i \in SimRows :
            LET r     == result.sim[i]
                delta == FeeDelta(Get(ss, FeeKey[r.Tier]))
            IN  /\ r.Fee_Capped <=> RawFee(r) > 300000
                /\ r.Fee_Floored <=> RawFee(r) < 100000
                /\ ~(r.Fee_Capped /\ r.Fee_Floored)
                /\ (r.Marketplace_Fee = Fee(290000) /\ delta = Fee(10000))
                     => ~r.Fee_Capped /\ ~r.Fee_Floored
                /\ (r.Marketplace_Fee = Fee(270000) /\ delta = Fee(30000))
                     => ~r.Fee_Capped /\ ~r.Fee_Floored
                /\ (r.Marketplace_Fee = Fee(280000) /\ delta = Fee(30000))
                     => r.Fee_Capped /\ r.New_Fee = 300000

C8_Witness ==
    /\ Simulated
    /\ \E i, j, k \in SimRows :
         /\ result.sim[i].Marketplace_Fee = Fee(290000)
         /\ result.tier_fee[result.sim[i].Tier] = Fee(10000)
         /\ ~result.sim[i].Fee_Capped
         /\ result.sim[i].New_Fee = 300000
         /\ result.sim[j].Fee_Capped
         /\ result.sim[k].Fee_Floored

\* C9: New Fee lies in [0.10, 0.30]; it is the rounded unclamped fee when
\* that is within the bounds, 0.30 when capped and 0.10 when floored.
C9_FeeClamped ==
    Simulated =>
        \A i \in SimRows :
            LET r == result.sim[i]
            IN  /\ r.New_Fee >= 100000 /\ r.New_Fee <= 300000
                /\ RawFee(r) \in 100000..300000 => r.New_Fee = RawFee(r)
                /\ r.Fee_Capped => r.New_Fee = 300000
                /\ r.Fee_Floored => r.New_Fee = 100000

C9_Witness ==
    /\ Simulated
    /\ \E i, j, k \in SimRows :
         /\ result.sim[i].Fee_Capped
         /\ result.sim[j].Fee_Floored
         /\ result.sim[k].New_Fee > 100000 /\ result.sim[k].New_Fee < 300000

AllDeltasZero == \A k \in Keys : Get(ss, k) = 0

SixDecimals(fee) == fee % (FeeScale \div 1000000) = 0
WithinBounds(fee) == fee >= Fee(100000) /\ fee <= Fee(300000)

\* C10 as stated: with all eight deltas 0, New Rev equals Curr Rev and Rev
\* Delta is 0 for every account, whatever its fee rate.
C10_ZeroReproducesBaseline ==
    (Simulated /\ AllDeltasZero) =>
        \A i \in SimRows :
            /\ result.sim[i].New_Rev = result.sim[i].Curr_Rev
            /\ result.sim[i].Rev_Delta = 0

\* C10 amended: with all eight deltas 0, New Rev equals Annualized Trips x
\* Avg. Basket Size x Marketplace Fee for every account whose fee has at most
\* 6 decimals and lies in [0.10, 0.30], and then Rev Delta is New Rev minus
\* the stored Estimated_Annual_Revenue (0 when that column holds the
\* product); an account whose fee is below 0.10 is simulated at 0.10.
C10_ZeroDeltas ==
    (Simulated /\ AllDeltasZero) =>
        \A i \in SimRows :
            LET r    == result.sim[i]
                base == BaselineRevenue(r.Annualized_Trips, r.Avg_Basket_Size,
                                        r.Marketplace_Fee)
            IN  /\ (SixDecimals(r.Marketplace_Fee)
                      /\ WithinBounds(r.Marketplace_Fee))
                     => /\ r.New_Rev = base
                        /\ r.Rev_Delta = base - r.Estimated_Annual_Revenue
                        /\ r.Estimated_Annual_Revenue = base
                             => r.New_Rev = r.Curr_Rev /\ r.Rev_Delta = 0
                /\ r.Marketplace_Fee < Fee(100000)
                     => r.New_Rev = 100 * r.Annualized_Trips
                                        * r.Avg_Basket_Size * 100000

C10_Witness ==
    /\ Simulated
    /\ AllDeltasZero
    /\ \E i, j \in SimRows :
         /\ WithinBounds(result.sim[i].Marketplace_Fee)
         /\ result.sim[i].New_Rev = result.sim[i].Curr_Rev
         /\ result.sim[i].Rev_Delta = 0
         /\ result.sim[j].Marketplace_Fee < Fee(100000)

\* The product Annualized Trips x Avg. Basket Size x Marketplace Fee of a
\* result row, in revenue units.
RowProduct(r) ==
    BaselineRevenue(r.Annualized_Trips, r.Avg_Basket_Size, r.Marketplace_Fee)

VolKey == [S |-> "s_volume", A |-> "a_volume",
           B |-> "b_volume", C |-> "c_volume"]

\* C12: New Trips = Annualized Trips x (1 + tier volume delta), New Fee is
\* the rounded fee clamped to [0.10, 0.30], New Rev = New Trips x Avg. Basket
\* Size x New Fee and Rev Delta = New Rev - Curr Rev; for a capped account
\* New Rev is computed at 0.30, for a floored one at 0.10.
C12_NewRevenue ==
    Simulated =>
        \A i \in SimRows :
            LET r   == result.sim[i]
                v   == Get(ss, VolKey[r.Tier])
                raw == RawFee(r)
                fee == IF raw > 300000 THEN 300000
                       ELSE IF raw < 100000 THEN 100000 ELSE raw
            IN  /\ r.New_Trips = r.Annualized_Trips * (100 + v)
                /\ r.New_Fee = fee
                /\ r.New_Rev = r.New_Trips * r.Avg_Basket_Size * fee
                /\ r.Rev_Delta = r.New_Rev - r.Curr_Rev
                /\ r.Fee_Capped =>
                     r.New_Rev = r.New_Trips * r.Avg_Basket_Size * 300000
                /\ r.Fee_Floored =>
                     r.New_Rev = r.New_Trips * r.Avg_Basket_Size * 100000

C12_Witness ==
    /\ Simulated
    /\ \E i, j \in SimRows :
         /\ result.sim[i].Fee_Capped
         /\ result.sim[i].Avg_Basket_Size = 2
         /\ result.sim[i].New_Trips # 100 * result.sim[i].Annualized_Trips
         /\ result.sim[i].New_Rev =
                result.sim[i].New_Trips * 2 * 300000
         /\ result.sim[j].Fee_Floored

\* C13: with a volume delta of -1.0 or below for some tier, run_simulation
\* raises instead of returning a result, and no result table ever holds a
\* negative New Trips value.
C13_VolumeDeltaRejected ==
    /\ (result.status # "none" /\ \E k \in VolKeys : Get(ss, k) <= -100)
          => ~Simulated
    /\ Simulated => \A i \in SimRows : result.sim[i].New_Trips >= 0

NegativeColumns(t) ==
    {c \in {"Annualized_Trips", "Order_Defect_Rate"} :
        \E i \in 1..Len(t) : t[i][c] < 0}

\* C14: calculate_total_score raises on a table with a negative value in a
\* required input column; it never returns a scored table computed from a
\* negative order volume or defect rate.
C14_NegativeRejected ==
    (df_scored # None /\ NegativeColumns(df) # {}) => ~Scored

\* The documented defaults, fee deltas in tenths of a percentage point and
\* volume deltas in whole percent: S -2 pp / +20 %, A -0.5 pp / +10 %,
\* B +2 pp / -5 %, C +3 pp / -15 %.
DocumentedFee == [S |-> -20, A |-> -5, B |-> 20, C |-> 30]
DocumentedVol == [S |->  20, A |-> 10, B |-> -5, C |-> -15]

Tiers == {"S", "A", "B", "C"}

\* C16: each of the eight parameters on its own: when its key is absent from
\* session state the run uses the documented default, when present the
\* stored value (as a fraction: value / 100).
C16_DefaultsWhenAbsent ==
    Simulated =>
        \A t \in Tiers :
            /\ result.tier_fee[t] * 1000 =
                  (IF FeeKey[t] \in DOMAIN ss
                   THEN ss[FeeKey[t]] ELSE DocumentedFee[t]) * FeeScale
            /\ result.tier_vol[t].n * 100 =
                  (IF VolKey[t] \in DOMAIN ss
                   THEN ss[VolKey[t]] ELSE DocumentedVol[t]) * result.tier_vol[t].d

\* Some key absent and another present with a value that is not its default.
C16_Witness ==
    /\ Simulated
    /\ "s_fee_change" \notin DOMAIN ss
    /\ result.tier_fee["S"] * 1000 = -20 * FeeScale
    /\ "c_fee_change" \in DOMAIN ss
    /\ ss["c_fee_change"] = 10
    /\ result.tier_fee["C"] * 1000 = 10 * FeeScale
    /\ "b_volume" \in DOMAIN ss
    /\ ss["b_volume"] = 0
    /\ result.tier_vol["B"].n = 0
    /\ "a_volume" \notin DOMAIN ss
    /\ result.tier_vol["A"].n * 100 = 10 * result.tier_vol["A"].d

ScoreColumns ==
    {"Volume_Score", "Wait_Time_Score", "Defect_Rate_Score",
     "Ops_Quality_Score", "Economics_Score", "Total_Score", "Rank", "Tier"}

\* C17: a call of calculate_total_score leaves its argument as it was, on
\* the pass-through path and on the from-scratch path: when the scored table
\* appears, the input table has the same columns and values as before.
C17_ArgumentUnchanged ==
    [][(df_scored = None /\ df_scored' # None) => df' = df]_vars

\* Scored from scratch: the result has the score columns, the argument still
\* has none of them.
C17_Witness ==
    /\ Scored
    /\ ScoreColumns \subseteq Columns(df_scored)
    /\ ScoreColumns \cap Columns(df) = {}
    /\ \A i \in 1..Len(df) :
         \A c \in Columns(df) : df_scored[i][c] = df[i][c]

\* C18: a table that already holds Total_Score and Tier is returned as it
\* is (no score, rank or tier recomputed); a table without them gets its
\* scores, rank and tier computed from its input columns.
C18_PassThrough ==
    Scored =>
        IF {"Total_Score", "Tier"} \subseteq Columns(df)
        THEN df_scored = df
        ELSE /\ Len(df_scored) = Len(df)
             /\ \A i \in 1..Len(df) :
                  LET r == df_scored[i]
                  IN  /\ Columns(df_scored) = Columns(df) \cup ScoreColumns
                      /\ \A c \in Columns(df) \ ScoreColumns : r[c] = df[i][c]
                      /\ r.Total_Score =
                            r.Volume_Score + r.Ops_Quality_Score
                              + r.Economics_Score
                      /\ r.Rank = 1 + Cardinality(
                            {j \in 1..Len(df) :
                               df_scored[j].Total_Score > r.Total_Score})
                      /\ r.Tier = (IF r.Rank <= 10 THEN "S"
                                   ELSE IF r.Rank <= 50 THEN "A"
                                   ELSE IF r.Rank <= 150 THEN "B" ELSE "C")

\* A loaded table passed through: every row keeps Total_Score 0 and
\* the ranks 1, 11, 51 and 151 they were loaded with.
C18_Witness ==
    /\ Scored
    /\ {"Total_Score", "Tier"} \subseteq Columns(df)
    /\ df_scored = df
    /\ \E i, j \in 1..Len(df) :
         /\ df_scored[i].Rank = 151
         /\ df_scored[j].Rank = 1
         /\ df_scored[i].Total_Score = df_scored[j].Total_Score

\* C19 as stated: run_simulation returns a full result table when it is
\* applied to the table calculate_total_score produces from a table holding
\* only the input-contract columns.
C19_NeverFails ==
    (Scored /\ result.status # "none") => Simulated

\* The columns run_simulation selects: the scored table's identity, tier,
\* rank and inputs, and the loader's Segment, revenue and default-scenario
\* columns.
RequiredBySimulation ==
    {"Brand_Name", "Tier", "Rank", "Annualized_Trips", "Avg_Basket_Size",
     "Marketplace_Fee", "Active_Locations"}
    \cup {"Segment", "Estimated_Annual_Revenue", "Target_Fee_Default",
          "New_Trips_Default", "New_Revenue_Default", "Revenue_Delta_Default"}

\* C19 amended: run_simulation returns a full result table, one row per
\* account, on every scored table that holds the columns it selects (the
\* table of load_restaurant_data); on a table scored from the input-contract
\* columns only it raises KeyError and returns nothing.
C19_NeedsLoadedColumns ==
    (Scored /\ result.status # "none") =>
        IF RequiredBySimulation \subseteq Columns(df_scored)
        THEN Simulated /\ Len(result.sim) = Len(df_scored)
        ELSE result.status = KeyError

C19_Witness ==
    /\ Scored
    /\ ScoreColumns \subseteq Columns(df_scored)
    /\ ScoreColumns \cap Columns(df) = {}
    /\ "Estimated_Annual_Revenue" \notin Columns(df_scored)
    /\ result.status = KeyError

\* ------------------------------------------------------------------------
\* The pages' aggregates of a simulation result.  A sum of revenues exceeds
\* the integers TLC computes with, so a total is kept as two limbs: the
\* exact integer hi * Limb + lo with 0 <= lo < Limb.
\* ------------------------------------------------------------------------

Limb == 1000 * 1000

Money(x) == [hi |-> x \div Limb, lo |-> x % Limb]

Plus(a, b) ==
    [hi |-> a.hi + b.hi + ((a.lo + b.lo) \div Limb),
     lo |-> (a.lo + b.lo) % Limb]

RECURSIVE SumMoney(_)
\* Series.sum()
SumMoney(s) ==
    IF s = <<>> THEN Money(0) ELSE Plus(Money(Head(s)), SumMoney(Tail(s)))

IsTier(r, t) == r.Tier = t

\* sim[sim['Tier'] == tier]
TierRows(sim, t) == SelectSeq(sim, LAMBDA r : IsTier(r, t))

\* The group keys of sim.groupby('Tier')
TiersPresent(sim) == {sim[i].Tier : i \in 1..Len(sim)}

total_curr(sim)  == SumMoney(Column(sim, "Curr_Rev"))
total_new(sim)   == SumMoney(Column(sim, "New_Rev"))
total_delta(sim) == SumMoney(Column(sim, "Rev_Delta"))

\* Variant: the proposed revenue summed in place of the delta.
tier_deltas_new(sim) ==
    [t \in TiersPresent(sim) |-> SumMoney(Column(TierRows(sim, t), "New_Rev"))]

\* tier_deltas = sim.groupby('Tier')['Rev Delta'].sum()
tier_deltas(sim) ==
    [t \in TiersPresent(sim) |->
        SumMoney(Column(TierRows(sim, t), "Rev_Delta"))]

\* tier_deltas.get(t, 0)
TierGet(series, t) == IF t \in DOMAIN series THEN series[t] ELSE Money(0)

\* tier_rev = sim.groupby('Tier').agg(Curr=..., New=..., Delta=...)
tier_rev(sim) ==
    [t \in TiersPresent(sim) |->
        [Curr  |-> SumMoney(Column(TierRows(sim, t), "Curr_Rev")),
         New   |-> SumMoney(Column(TierRows(sim, t), "New_Rev")),
         Delta |-> SumMoney(Column(TierRows(sim, t), "Rev_Delta"))]]

\* The sum over the tiers S, A, B, C of a per-tier series (0 for a tier
\* without accounts).
OverTiers(series) ==
    Plus(Plus(TierGet(series, "S"), TierGet(series, "A")),
         Plus(TierGet(series, "B"), TierGet(series, "C")))

\* C20: for every simulation result the per-tier sums of Curr Rev, New Rev
\* and Rev Delta add up over S, A, B, C to the population totals, and the
\* waterfall closes: total Curr Rev plus the four tier deltas is total New
\* Rev (which is also total Curr Rev plus total Rev Delta).
C20_AggregatesReconcile ==
    Simulated =>
        LET sim == result.sim
            rev == tier_rev(sim)
            td  == tier_deltas(sim)
        IN  /\ OverTiers([t \in DOMAIN rev |-> rev[t].Curr]) = total_curr(sim)
            /\ OverTiers([t \in DOMAIN rev |-> rev[t].New]) = total_new(sim)
            /\ OverTiers([t \in DOMAIN rev |-> rev[t].Delta])
                  = total_delta(sim)
            /\ OverTiers(td) = total_delta(sim)
            /\ Plus(total_curr(sim), OverTiers(td)) = total_new(sim)
            /\ Plus(total_curr(sim), total_delta(sim)) = total_new(sim)

\* A result whose tier deltas have both signs and whose totals are beyond
\* a single limb; and one with no account in tiers A and B.
C20_Witness ==
    /\ Simulated
    /\ TierGet(tier_deltas(result.sim), "S").hi < 0
    /\ TierGet(tier_deltas(result.sim), "C").hi > 0
    /\ total_new(result.sim).hi > 2147
    /\ TiersPresent(result.sim) = Tiers

C20_WitnessPartial ==
    /\ Simulated
    /\ TiersPresent(result.sim) = {"S", "C"}
    /\ total_delta(result.sim) # Money(0)

\* ------------------------------------------------------------------------
\* Further claims about the scoring model (checked under SpecScoring)
\* ------------------------------------------------------------------------

\* The table with another location count in every row: row i gets i + 1
\* locations (the input tables have 1 everywhere).
Relocated(t) ==
    Series([i \in 1..Len(t) |-> [t[i] EXCEPT !.Active_Locations = i + 1]])

ScoreView(r) == [c \in ScoreColumns |-> r[c]]

\* C21: a table that differs from the scored one in the Active_Locations
\* column only gets the same sub-scores, Total_Score, Rank and Tier for
\* every account.
C21_LocationsNotScored ==
    Scored =>
        LET alt == calculate_total_score(Relocated(df))
        IN  /\ Len(alt) = N
            /\ \A i \in 1..N : ScoreView(alt[i]) = ScoreView(df_scored[i])

C21_Witness ==
    /\ Scored
    /\ N >= 2
    /\ \E i, j \in 1..N :
         /\ df[i].Annualized_Trips = df[j].Annualized_Trips
         /\ Relocated(df)[i].Active_Locations
              # Relocated(df)[j].Active_Locations
         /\ df_scored[i].Volume_Score = df_scored[j].Volume_Score
    /\ \E i, j \in 1..N : df_scored[i].Rank # df_scored[j].Rank

\* ------------------------------------------------------------------------
\* Further claims about the simulator and the session (checked under Spec)
\* ------------------------------------------------------------------------

\* C22: no parameter change and no simulation run touches the scoring: the
\* input table never changes, a loaded table's Total_Score, Rank and Tier
\* stay as loaded, and the Tier and Rank columns of a simulation result are
\* those of the scored table.
C22_ScoringUntouched ==
    /\ [][df' = df]_vars
    /\ [](Scored /\ ScoreColumns \subseteq Columns(df)
            => \A i \in 1..Len(df) :
                 ScoreView(df_scored[i]) = ScoreView(df[i]))
    /\ [](Simulated
            => /\ Len(result.sim) = Len(df_scored)
               /\ \A i \in SimRows :
                    /\ result.sim[i].Brand_Name = df_scored[i].Brand_Name
                    /\ result.sim[i].Tier = df_scored[i].Tier
                    /\ result.sim[i].Rank = df_scored[i].Rank)

\* A run after a stored value in which some account's fee changed.
C22_Witness ==
    /\ Simulated
    /\ trigger = "slider"
    /\ \E i \in SimRows :
         /\ result.sim[i].New_Fee * (FeeScale \div 1000000)
              # result.sim[i].Marketplace_Fee
         /\ result.sim[i].Tier = df_scored[i].Tier
         /\ df[i].Marketplace_Fee = result.sim[i].Marketplace_Fee

CountLT(a, v) == Cardinality({j \in 1..Len(a) : a[j] < v})

\* C23: _prank returns Excel's PERCENTRANK.INC for every element v of every
\* column of N >= 2 non-negative values: the number of values strictly less
\* than v, divided by N - 1; the minimum maps to 0 and the maximum to 1.
C23_PercentRankInc ==
    (df_scored # None /\ N >= 2 /\ NegativeColumns(df) = {}) =>
        \A a \in RankedSeries(df) :
            LET p == _prank(a)
            IN  \A i \in 1..N : RatEq(p[i], CountLT(a, a[i]), N - 1)

\* C24: a call of init_session_state, from any session state, leaves all
\* eight keys present, every key that existed with the value it had and
\* every key that was absent with its documented default; a second call
\* changes nothing.
C24_InitIsSafe ==
    [][(ss' # ss /\ ss' = init_session_state(ss)) =>
         /\ DOMAIN ss' = DOMAIN ss \cup
               {"s_fee_change", "a_fee_change", "b_fee_change", "c_fee_change",
                "s_volume", "a_volume", "b_volume", "c_volume"}
         /\ \A k \in DOMAIN ss : ss'[k] = ss[k]
         /\ \A t \in Tiers :
              /\ FeeKey[t] \notin DOMAIN ss => ss'[FeeKey[t]] = DocumentedFee[t]
              /\ VolKey[t] \notin DOMAIN ss => ss'[VolKey[t]] = DocumentedVol[t]
         /\ init_session_state(ss') = ss']_vars

\* After a call on a session that held two stored values and lacked the
\* other keys.
C24_Witness ==
    /\ DOMAIN ss = Keys
    /\ ss["c_fee_change"] = 10
    /\ ss["b_volume"] = 0
    /\ ss["s_fee_change"] = -20
    /\ ss["a_volume"] = 10

Names(t) == {t[i].Brand_Name : i \in 1..Len(t)}

\* C25: get_top_n_merchants(df_scored, 10) returns exactly the S-tier
\* accounts of the scored table, also with tied ranks around rank 10.
C25_TopTenIsSTier ==
    Scored =>
        Names(get_top_n_merchants(df_scored, 10))
          = {df_scored[i].Brand_Name :
                i \in {j \in 1..N : df_scored[j].Tier = "S"}}

\* The distinct Total_Score values of a scored table, the rows holding a
\* value, and the rank of the first of them.
ScoresOf(t) == {t[i].Total_Score : i \in 1..Len(t)}
RowsWith(t, x) == {i \in 1..Len(t) : t[i].Total_Score = x}
RankAt(t, x) == t[CHOOSE i \in 1..Len(t) : t[i].Total_Score = x].Rank

\* y is the next distinct score below x.
NextBelow(t, x, y) ==
    /\ y < x
    /\ ~\E z \in ScoresOf(t) : z < x /\ z > y

\* C26: Rank is standard competition ranking on the rounded Total_Score: 1
\* plus the number of accounts with a strictly greater Total_Score; a tie
\* group of size k shares one rank and the next distinct score's rank is k
\* higher; the best score has rank 1.
C26_CompetitionRanking ==
    Scored =>
        \A x \in ScoresOf(df_scored) :
            LET above == Cardinality({j \in 1..N :
                            df_scored[j].Total_Score > x})
                group == RowsWith(df_scored, x)
            IN  /\ \A i \in group : df_scored[i].Rank = 1 + above
                /\ \A i \in group : df_scored[i].Rank = RankAt(df_scored, x)
                /\ \A y \in ScoresOf(df_scored) :
                     NextBelow(df_scored, x, y) =>
                       RankAt(df_scored, y)
                         = RankAt(df_scored, x) + Cardinality(group)
                /\ (\A y \in ScoresOf(df_scored) : y <= x)
                     => RankAt(df_scored, x) = 1

\* A tie group of 10 at the top followed by a lower score at rank 11.
C26_Witness ==
    /\ Scored
    /\ \E x, y \in ScoresOf(df_scored) :
         /\ RankAt(df_scored, x) = 1
         /\ Cardinality(RowsWith(df_scored, x)) = 10
         /\ NextBelow(df_scored, x, y)
         /\ RankAt(df_scored, y) = 11

\* C27: a call of run_simulation changes nothing but its result: the
\* session state (keys present and absent alike), the input table and the
\* scored table it was handed are the same after the call as before.
C27_OnlyReturnValue ==
    [][(result.status = "none" /\ result'.status # "none") =>
         /\ ss' = ss
         /\ DOMAIN ss' = DOMAIN ss
         /\ df' = df
         /\ Len(df_scored') = Len(df_scored)
         /\ \A i \in 1..Len(df_scored) : df_scored'[i] = df_scored[i]]_vars

\* After a run on a session with one key stored and the others absent.
C27_Witness ==
    /\ Simulated
    /\ DOMAIN ss = {"c_fee_change"}
    /\ ss["c_fee_change"] = 10
    /\ result.tier_fee["C"] * 1000 = 10 * FeeScale
    /\ Columns(df_scored) = Columns(df)
    /\ "New_Fee" \notin Columns(df_scored)

\* C28: pressing 'Reset to Defaults', after any stored values, removes all
\* eight keys; in the script run it starts is_at_defaults() is true, every
\* key the sliders put back holds its default, and a simulation uses the
\* defaults divided by 100 for every tier's fee and volume delta.
C28_ResetRestoresDefaults ==
    /\ [][(trigger # "reset" /\ trigger' = "reset")
            => DOMAIN ss' \cap
                 {"s_fee_change", "a_fee_change", "b_fee_change",
                  "c_fee_change", "s_volume", "a_volume", "b_volume",
                  "c_volume"} = {}]_vars
    /\ [](trigger = "reset" =>
            /\ is_at_defaults(ss)
            /\ \A t \in Tiers :
                 /\ FeeKey[t] \in DOMAIN ss => ss[FeeKey[t]] = DocumentedFee[t]
                 /\ VolKey[t] \in DOMAIN ss => ss[VolKey[t]] = DocumentedVol[t]
            /\ Simulated =>
                 \A t \in Tiers :
                     /\ result.tier_fee[t] * 1000 = DocumentedFee[t] * FeeScale
                     /\ result.tier_vol[t].n * 100
                          = DocumentedVol[t] * result.tier_vol[t].d)

\* A simulation in the run a reset started, the keys gone.
C28_Witness ==
    /\ trigger = "reset"
    /\ DOMAIN ss = {}
    /\ Simulated
    /\ result.tier_fee["C"] * 1000 = 30 * FeeScale
    /\ result.tier_vol["C"].n * 100 = -15 * result.tier_vol["C"].d

\* The value run_simulation uses for a tier's fee and volume parameter: the
\* stored one, or the documented default when the key is absent.
UsedFee(t) ==
    IF FeeKey[t] \in DOMAIN ss THEN ss[FeeKey[t]] ELSE DocumentedFee[t]
UsedVol(t) ==
    IF VolKey[t] \in DOMAIN ss THEN ss[VolKey[t]] ELSE DocumentedVol[t]

DefaultScenario ==
    \A t \in Tiers :
        UsedFee(t) = DocumentedFee[t] /\ UsedVol(t) = DocumentedVol[t]

\* C29: is_at_defaults() is true exactly when the eight parameters a run
\* uses all equal their defaults, an absent key counting as its default;
\* a simulation result then carries the default deltas, and only then.
C29_BannerMatchesScenario ==
    /\ is_at_defaults(ss) <=> DefaultScenario
    /\ Simulated =>
         (is_at_defaults(ss) <=>
            \A t \in Tiers :
                /\ result.tier_fee[t] * 1000 = DocumentedFee[t] * FeeScale
                /\ result.tier_vol[t].n * 100
                     = DocumentedVol[t] * result.tier_vol[t].d)

\* A default run with every key stored at its default.
C29_Witness ==
    /\ Simulated
    /\ DOMAIN ss = Keys
    /\ is_at_defaults(ss)
    /\ result.tier_fee["S"] * 1000 = -20 * FeeScale

\* C30: Fee Dir shows the sign of the tier's intended fee delta, before
\* clamping: up iff the delta is positive, down iff negative, dash iff zero;
\* the accounts of a tier share it, whatever clamping does to their fee.
C30_DirectionFromDelta ==
    Simulated =>
        \A i \in SimRows :
            LET r == result.sim[i]
                d == UsedFee(r.Tier)
            IN  /\ r.Fee_Dir = "up" <=> d > 0
                /\ r.Fee_Dir = "down" <=> d < 0
                /\ r.Fee_Dir = "dash" <=> d = 0
                /\ \A j \in SimRows :
                     result.sim[j].Tier = r.Tier
                       => result.sim[j].Fee_Dir = r.Fee_Dir

\* An account at 0.10 in a tier with a fee cut: floored back to 0.10, shown
\* with the down arrow; another tier with a zero delta and one with a rise.
C30_Witness ==
    /\ Simulated
    /\ \E i, j, k \in SimRows :
         /\ result.sim[i].Marketplace_Fee = Fee(100000)
         /\ result.sim[i].New_Fee = 100000
         /\ result.sim[i].Fee_Floored
         /\ result.sim[i].Fee_Dir = "down"
         /\ result.sim[j].Fee_Dir = "dash"
         /\ result.sim[k].Fee_Dir = "up"

====
